---- MODULE Spec2Model ----
(***************************************************************************)
(* Model of daomop/stationary.py: the per-(exposure, chip) task run(), the *)
(* matching pass match() and the per-pixel shard merge split_to_hpx().     *)
(*                                                                         *)
(* Sky positions are points <<x, y>> of an integer grid whose unit is the  *)
(* matching tolerance (0.5 arcsecond).  One chip and one version are       *)
(* modelled, so a dataset identifier is the exposure number.               *)
(* The storage and util modules are not part of the sources: their         *)
(* operations (status store, catalog store, match_lists, HEALPix index)    *)
(* follow the design document.                                             *)
(***************************************************************************)
EXTENDS Integers, Sequences, FiniteSets, TLC

VARIABLES
    catStore,    \* exposure -> persisted source catalog (.cat.fits), or absent
    imgStore,    \* exposure -> its image can be retrieved
    footprint,   \* exposure -> set of positions inside the image polygon
    matchList,   \* exposure -> result of its image's cone search
    dependency,  \* module global `dependency`
    shards,      \* pixel -> persisted HPXCatalog, or absent
    status,      \* exposure -> recorded status of task "stationary"
    pc,          \* exposure -> position of its run() invocation
    call,        \* exposure -> arguments and observations of its invocation
    cat,         \* exposure -> in-memory catalog.table of the invocation
    todo,        \* exposure -> pixels still to visit in the current loop
    mem,         \* exposure -> in-memory healpix_catalog.table before put()
    pre,         \* storage state when the latest invocation began
    prevCall,    \* summary of the invocation that returned last
    stalePut,    \* a put() has replaced a shard newer than the one it had read
    batch        \* main(): the cone search result, the loop position, the flags

vars == <<catStore, imgStore, footprint, matchList, dependency, shards, status, pc, call, cat, todo,
          mem, pre, prevCall, stalePut, batch>>

-----------------------------------------------------------------------------
(* Bounds and program constants *)

MaxCand == 3

MaxBatch == 2

Tolerance == 1

Exposures == {1, 2}

Pixels == {0, 1}

SUCCESS == "success"

NotStarted == "none"

NoDependency == "None"

DepNotRun == "dependency not yet run"

ENOENT == "catalog not found"

EIO == "input/output error"

Positions == {<<0, 0>>, <<2, 0>>, <<3, 0>>, <<4, 0>>, <<4, 1>>, <<5, 0>>}

Absent == [exists |-> FALSE, table |-> <<>>]

Stored(t) == [exists |-> TRUE, table |-> t]

\* Catalogs whose sources are pairwise farther apart than the tolerance, each
\* with the footprint of its image.
ExposureChoices ==
    { [cat |-> Stored(<< <<2, 0>>, <<4, 0>> >>), img |-> TRUE, fp |-> Positions,
       ml |-> <<1, 2>>],
      [cat |-> Stored(<< <<0, 0>>, <<3, 0>> >>), img |-> TRUE,
       fp |-> {p \in Positions : p[1] <= 3}, ml |-> <<2, 1>>],
      [cat |-> Stored(<< <<4, 1>>, <<5, 0>>, <<3, 0>> >>), img |-> TRUE, fp |-> Positions,
       ml |-> <<>>],
      [cat |-> Absent, img |-> TRUE, fp |-> Positions, ml |-> <<1>>],
      [cat |-> Stored(<< <<2, 0>>, <<4, 0>> >>), img |-> FALSE, fp |-> Positions,
       ml |-> <<>>] }

MatchLists == UNION {[1..n -> Exposures] : n \in 0..MaxCand}

-----------------------------------------------------------------------------
(* Helpers *)

Max(S) == CHOOSE x \in S : \A y \in S : y <= x

Min(S) == CHOOSE x \in S : \A y \in S : x <= y

RECURSIVE SortedSeq(_)
SortedSeq(S) == IF S = {} THEN <<>> ELSE <<Min(S)>> \o SortedSeq(S \ {Min(S)})

Dist2(a, b) == (a[1] - b[1]) * (a[1] - b[1]) + (a[2] - b[2]) * (a[2] - b[2])

Within(a, b) == Dist2(a, b) <= Tolerance * Tolerance

\* util.skycoord_to_healpix: the pixel of a position.
skycoord_to_healpix(p) == IF p[1] <= 2 THEN 0 ELSE 1

\* Mutant: a separation equal to the tolerance does not match.
InToleranceStrict(d2) == d2 < Tolerance * Tolerance

\* util.match_lists: the test of a (squared) separation against the tolerance.
InTolerance(d2) == d2 <= Tolerance * Tolerance

\* util.match_lists, first result: for each point of p1 the index of the
\* nearest point of p2 (first index among equally near ones) when it is
\* within the tolerance, 0 (masked) otherwise.
Nearest(a, p2) ==
    IF Len(p2) = 0 THEN 0
    ELSE LET d == Min({Dist2(a, p2[j]) : j \in 1..Len(p2)})
             j0 == Min({j \in 1..Len(p2) : Dist2(a, p2[j]) = d})
         IN IF InTolerance(d) THEN j0 ELSE 0

Idx1(p1, p2) == [i \in 1..Len(p1) |-> Nearest(p1[i], p2)]

\* util.match_lists, second result: one entry per point of p2, the index of
\* the point of p1 matched to it (the last one, when several are), 0 (masked)
\* when none is.
Idx2(p1, p2) ==
    [j \in 1..Len(p2) |->
        LET S == {i \in 1..Len(p1) : Idx1(p1, p2)[i] = j}
        IN IF S = {} THEN 0 ELSE Max(S)]

PosOf(table) == [i \in 1..Len(table) |-> table[i].pos]

\* Mutant: the distinct pixels, descending.
UniquePixReversed(table) ==
    LET asc == SortedSeq({table[i].pix : i \in 1..Len(table)})
    IN [i \in 1..Len(asc) |-> asc[Len(asc) + 1 - i]]

\* Mutant: only the smallest pixel.
UniquePixFirst(table) ==
    IF table = <<>> THEN <<>> ELSE <<Min({table[i].pix : i \in 1..Len(table)})>>

\* numpy.unique(catalog.table['HEALPIX']): the distinct pixels, ascending.
UniquePix(table) == SortedSeq({table[i].pix : i \in 1..Len(table)})

RowsOfPix(table, pix) == SelectSeq(table, LAMBDA r : r.pix = pix)

-----------------------------------------------------------------------------
(* match(): catalog load and HPXID assignment *)

\* catalog.table of exposure t as match() holds it before the HPXID loop:
\* positions, HEALPIX column, HPXID = -1.
LoadCatalog(t) ==
    [i \in 1..Len(catStore[t].table) |->
        [ds |-> t,
         pos |-> catStore[t].table[i],
         pix |-> skycoord_to_healpix(catStore[t].table[i]),
         hpxid |-> -1,
         m |-> 0,
         o |-> 0]]

\* Mutant: every unmatched source of a pixel gets the shard's row count.
NextIdSame(len, rank) == len

\* Mutant: the numbering ignores the shard's row count.
NextIdFromZero(len, rank) == rank

\* The identifier given to the rank-th (from 0) unmatched source of a pixel
\* whose shard held len rows.
NextId(len, rank) == len + rank

\* Mutant: no identifier is inherited from the shard.
InheritNothing(table, shardTable) == table

\* catalog.table['HPXID'][idx2.data[~idx2.mask]] = hpx_cat.table['HPXID'][~idx2.mask]
\* p1 holds every source of the catalog, whatever its pixel.
Inherit(table, shardTable) ==
    LET idx2 == Idx2(PosOf(table), PosOf(shardTable))
    IN [i \in 1..Len(table) |->
          IF \E j \in 1..Len(shardTable) : idx2[j] = i
          THEN [table[i] EXCEPT !.hpxid =
                   shardTable[CHOOSE j \in 1..Len(shardTable) : idx2[j] = i].hpxid]
          ELSE table[i]]

\* The positions of the sources that line 113 gives a shard row's HPXID.
InheritedFrom(table, shard) ==
    IF shard.exists
    THEN {table[i].pos : i \in {Idx2(PosOf(table), PosOf(shard.table))[j] :
                                   j \in 1..Len(shard.table)} \ {0}}
    ELSE {}

\* The numbering of the sources of pixel pix that still carry a negative
\* HPXID: hpx_cat_len + arange(cond.sum()), in catalog order.
Number(table, len, pix) ==
    LET cond(i) == table[i].hpxid < 0 /\ table[i].pix = pix
        rank(i) == Cardinality({k \in 1..(i - 1) : cond(k)})
    IN [i \in 1..Len(table) |->
          IF cond(i) THEN [table[i] EXCEPT !.hpxid = NextId(len, rank(i))]
          ELSE table[i]]

\* Mutant: without a shard the numbering starts at 1.
AssignIdentifiersFromOne(table, shard, pix) ==
    IF shard.exists
    THEN Number(Inherit(table, shard.table), Len(shard.table), pix)
    ELSE Number(table, 1, pix)

\* One iteration of the HPXID loop for pixel pix against its shard.
AssignIdentifiers(table, shard, pix) ==
    IF shard.exists
    THEN Number(Inherit(table, shard.table), Len(shard.table), pix)
    ELSE Number(table, 0, pix)

-----------------------------------------------------------------------------
(* match(): MATCHES and OVERLAPS against the candidates *)

\* catalog.table['MATCHES'][idx2.data[~idx2.mask]] += 1
AddMatches(table, candCat) ==
    LET idx2 == Idx2(PosOf(table), candCat)
    IN [i \in 1..Len(table) |->
          IF \E j \in 1..Len(candCat) : idx2[j] = i
          THEN [table[i] EXCEPT !.m = @ + 1]
          ELSE table[i]]

\* catalog.table['OVERLAPS'] += [polygon.isInside(row) for row in catalog.table]
AddOverlaps(table, fp) ==
    [i \in 1..Len(table) |->
        IF table[i].pos \in fp THEN [table[i] EXCEPT !.o = @ + 1] ELSE table[i]]

\* Mutant: a candidate without a catalog still adds its footprint's overlaps.
CountCandidateAlways(table, c, lazy) ==
    AddOverlaps(IF catStore[c].exists THEN AddMatches(table, catStore[c].table) ELSE table,
                footprint[c])

\* One iteration of the candidate loop: a candidate whose catalog is not
\* found is skipped (ENOENT, continue).  A candidate whose image is not found
\* is skipped too: at line 129 when storage.Image() retrieves the image on
\* construction, at line 136 (after line 134 has run) when the image is
\* retrieved lazily on the first use of its polygon.
CountCandidate(table, c, lazy) ==
    IF ~catStore[c].exists THEN table
    ELSE IF imgStore[c]
    THEN AddOverlaps(AddMatches(table, catStore[c].table), footprint[c])
    ELSE IF lazy THEN AddMatches(table, catStore[c].table)
    ELSE table

\* Mutant: a candidate already seen in the list is not counted again.
RECURSIVE CountFromDistinct(_, _, _, _)
CountFromDistinct(table, ml, k, lazy) ==
    IF k > Len(ml) THEN table
    ELSE IF \E k0 \in 1..(k - 1) : ml[k0] = ml[k]
    THEN CountFromDistinct(table, ml, k + 1, lazy)
    ELSE CountFromDistinct(CountCandidate(table, ml[k], lazy), ml, k + 1, lazy)

RECURSIVE CountFrom(_, _, _, _)
CountFrom(table, ml, k, lazy) ==
    IF k > Len(ml) THEN table
    ELSE CountFrom(CountCandidate(table, ml[k], lazy), ml, k + 1, lazy)

\* MATCHES = 0, OVERLAPS = 0, then the loop over match_list.
CountAll(table, ml, lazy) ==
    CountFrom([i \in 1..Len(table) |-> [table[i] EXCEPT !.m = 0, !.o = 0]], ml, 1, lazy)

-----------------------------------------------------------------------------
(* split_to_hpx(): merge of the catalog rows of one pixel into its shard *)

\* Mutant: the catalog rows are put before the rows kept from the shard.
MergePrepend(shard, ds, rows) ==
    IF shard.exists
    THEN rows \o SelectSeq(shard.table, LAMBDA r : r.ds # ds)
    ELSE rows

\* Mutant: the shard is replaced by the catalog rows.
MergeReplace(shard, ds, rows) == rows

\* Mutant: the rows of the dataset are not removed before the append.
MergeNoFilter(shard, ds, rows) == IF shard.exists THEN shard.table \o rows ELSE rows

\* healpix_catalog.table after get(), filter and vstack; the catalog rows
\* alone when the shard does not exist.
Merge(shard, ds, rows) ==
    IF shard.exists
    THEN SelectSeq(shard.table, LAMBDA r : r.ds # ds) \o rows
    ELSE rows

-----------------------------------------------------------------------------
(* run(): skip test, dependency test, dry-run return *)

\* Mutant: the recorded status is never consulted.
IsDoneNever(st, force) == FALSE

\* Mutant: the dependency is never consulted.
DependencyIgnored(dep, depOK) == TRUE

\* Mutant: the dry-run return is missing.
ReturnsNever(dry) == FALSE

\* storage.get_status(task, ...) and not force
IsDone(st, force) == st = SUCCESS /\ ~force

\* dependency is None, or its status is success
DependencyMet(dep, depOK) == dep = NoDependency \/ depOK

\* if dry_run: return
ReturnsEarly(dry) == dry

-----------------------------------------------------------------------------
(* State *)

IdleCall ==
    [dry |-> FALSE, forced |-> FALSE, depOK |-> TRUE, msg |-> SUCCESS, outcome |-> "none",
     matched |-> FALSE, nput |-> 0, readLen |-> [p \in Pixels |-> -1],
     inherited |-> {}, raisedIn |-> "none"]

NoCall == [task |-> 0, outcome |-> "none"]

\* run() is invoked by a caller other than main().
NoBatch == [overlaps |-> <<>>, i |-> 1, dry |-> FALSE, force |-> FALSE, attempted |-> <<>>]

\* main() before its loop: the pairs returned by the cone search (line 180),
\* the command-line flags.
Batches ==
    {[overlaps |-> o, i |-> 1, dry |-> d, force |-> f, attempted |-> <<>>] :
        o \in UNION {[1..n -> Exposures] : n \in 1..MaxBatch}, d \in BOOLEAN, f \in BOOLEAN}

\* Mutant: the loop of main() stops at a pair whose task failed.
NextPairUnlessFailed(b, outcome) ==
    IF b.i <= Len(b.overlaps) /\ outcome \in {SUCCESS, "skipped", "returned"}
    THEN b.i + 1 ELSE b.i

\* for overlap in overlaps: the position after run() has returned.
NextPair(b, outcome) == IF b.i <= Len(b.overlaps) THEN b.i + 1 ELSE b.i

\* The state before any task has run, for the module global dependency
\* either unset (as shipped) or naming an upstream task.
InitWith(lists, deps, batches) ==
    /\ \E w \in [Exposures -> ExposureChoices] :
          /\ catStore = [e \in Exposures |-> w[e].cat]
          /\ imgStore = [e \in Exposures |-> w[e].img]
          /\ footprint = [e \in Exposures |-> w[e].fp]
          /\ \/ /\ lists = {}
                /\ matchList = [e \in Exposures |-> w[e].ml]
             \/ \E ml \in lists : matchList = [e \in Exposures |-> ml]
    /\ dependency \in deps
    /\ shards = [p \in Pixels |-> Absent]
    /\ status = [e \in Exposures |-> NotStarted]
    /\ pc = [e \in Exposures |-> "idle"]
    /\ call = [e \in Exposures |-> IdleCall]
    /\ cat = [e \in Exposures |-> <<>>]
    /\ todo = [e \in Exposures |-> <<>>]
    /\ mem = [e \in Exposures |-> <<>>]
    /\ pre = [shards |-> shards, status |-> status, catStore |-> catStore]
    /\ prevCall = NoCall
    /\ stalePut = FALSE
    /\ batch \in batches

Init == InitWith({}, {NoDependency, "mkpsf"}, {NoBatch})

\* The position after a loop over the pixels left in pixels: the loop body
\* when one is left, the code after the loop otherwise.
AfterLoop(pixels, body, after) == IF pixels = <<>> THEN after ELSE body

\* An exception raised inside the try block: the catalog in memory is lost
\* and the handler keeps the message.
Raise(t, message, where) ==
    /\ pc' = [pc EXCEPT ![t] = "except"]
    /\ call' = [call EXCEPT ![t].msg = message, ![t].raisedIn = where]
    /\ cat' = [cat EXCEPT ![t] = <<>>]
    /\ todo' = [todo EXCEPT ![t] = <<>>]
    /\ mem' = [mem EXCEPT ![t] = <<>>]

-----------------------------------------------------------------------------
(* Actions *)

\* run() is entered: skip test (line 30), dependency test (lines 36-38),
\* then match() up to the HPXID loop (lines 86-104).
StartWith(t, dry, force, depOK) ==
    /\ pc[t] = "idle"
    /\ pre' = [shards |-> shards, status |-> status, catStore |-> catStore]
    /\ UNCHANGED <<catStore, imgStore, footprint, matchList, dependency, shards, status, prevCall, stalePut>>
    /\ LET c0 == [IdleCall EXCEPT !.dry = dry, !.depOK = depOK,
                                  !.forced = (force /\ status[t] = SUCCESS)]
       IN IF IsDone(status[t], force)
          THEN /\ pc' = [pc EXCEPT ![t] = "done"]
               /\ call' = [call EXCEPT ![t] = [c0 EXCEPT !.outcome = "skipped"]]
               /\ UNCHANGED <<cat, todo, mem>>
          ELSE IF ~DependencyMet(dependency, depOK)
          THEN /\ pc' = [pc EXCEPT ![t] = "except"]
               /\ call' = [call EXCEPT ![t] = [c0 EXCEPT !.msg = DepNotRun,
                                                          !.raisedIn = "run"]]
               /\ UNCHANGED <<cat, todo, mem>>
          ELSE IF ~imgStore[t] \/ ~catStore[t].exists
          THEN /\ pc' = [pc EXCEPT ![t] = "except"]
               /\ call' = [call EXCEPT ![t] = [c0 EXCEPT !.msg = ENOENT, !.matched = TRUE,
                                                          !.raisedIn = "match"]]
               /\ UNCHANGED <<cat, todo, mem>>
          ELSE /\ pc' = [pc EXCEPT ![t] =
                            AfterLoop(UniquePix(LoadCatalog(t)), "assign", "count")]
               /\ call' = [call EXCEPT ![t] = [c0 EXCEPT !.matched = TRUE]]
               /\ cat' = [cat EXCEPT ![t] = LoadCatalog(t)]
               /\ todo' = [todo EXCEPT ![t] = UniquePix(LoadCatalog(t))]
               /\ UNCHANGED mem

\* One iteration of the HPXID loop of match() (lines 105-121).
AssignPix(t) ==
    /\ pc[t] = "assign"
    /\ UNCHANGED <<catStore, imgStore, footprint, matchList, dependency, shards, status, pre, prevCall, stalePut, batch>>
    /\ LET pix == Head(todo[t])
       IN \E io \in {"ok", EIO} :
            IF io = EIO
            THEN Raise(t, EIO, "match")
            ELSE /\ cat' = [cat EXCEPT ![t] = AssignIdentifiers(cat[t], shards[pix], pix)]
                 /\ call' = [call EXCEPT ![t].readLen[pix] = Len(shards[pix].table),
                                          ![t].inherited =
                                              @ \cup InheritedFrom(cat[t], shards[pix])]
                 /\ todo' = [todo EXCEPT ![t] = Tail(todo[t])]
                 /\ pc' = [pc EXCEPT ![t] = AfterLoop(Tail(todo[t]), "assign", "count")]
                 /\ UNCHANGED mem

\* The candidate loop of match() (lines 123-143), then the head of
\* split_to_hpx() (lines 62-67).
CountCands(t) ==
    /\ pc[t] = "count"
    /\ UNCHANGED <<catStore, imgStore, footprint, matchList, dependency, shards, status, pre, prevCall, stalePut, batch>>
    /\ \E io \in {"ok", EIO} :
         IF io = EIO
         THEN /\ matchList[t] # <<>>
              /\ Raise(t, EIO, "match")
         ELSE /\ \E lazy \in BOOLEAN :
                    cat' = [cat EXCEPT ![t] = CountAll(cat[t], matchList[t], lazy)]
              /\ todo' = [todo EXCEPT ![t] = UniquePix(cat[t])]
              /\ pc' = [pc EXCEPT ![t] = AfterLoop(UniquePix(cat[t]), "split", "post")]
              /\ UNCHANGED <<call, mem>>

\* split_to_hpx(), one pixel: get(), filter and vstack (lines 68-79).
SplitGet(t) ==
    /\ pc[t] = "split"
    /\ UNCHANGED <<catStore, imgStore, footprint, matchList, dependency, shards, status, pre, prevCall, stalePut, batch>>
    /\ LET pix == Head(todo[t])
       IN \E io \in {"ok", EIO} :
            IF io = EIO
            THEN Raise(t, EIO, "split_to_hpx")
            ELSE /\ mem' = [mem EXCEPT ![t] = Merge(shards[pix], t, RowsOfPix(cat[t], pix))]
                 /\ pc' = [pc EXCEPT ![t] = "put"]
                 /\ UNCHANGED <<call, cat, todo>>

\* split_to_hpx(), one pixel: write() and put() (lines 80-81).
SplitPut(t) ==
    /\ pc[t] = "put"
    /\ LET pix == Head(todo[t])
       IN /\ shards' = [shards EXCEPT ![pix] = Stored(mem[t])]
          /\ stalePut' = (stalePut \/ mem[t] # Merge(shards[pix], t, RowsOfPix(cat[t], pix)))
          /\ call' = [call EXCEPT ![t].nput = @ + 1]
          /\ todo' = [todo EXCEPT ![t] = Tail(todo[t])]
          /\ pc' = [pc EXCEPT ![t] = AfterLoop(Tail(todo[t]), "split", "post")]
          /\ mem' = [mem EXCEPT ![t] = <<>>]
    /\ UNCHANGED <<catStore, imgStore, footprint, matchList, dependency, status, cat, pre, prevCall, batch>>

\* After split_to_hpx(): the dry-run return (lines 47-48), or set_status
\* with the success message (line 57).
Complete(t) ==
    /\ pc[t] = "post"
    /\ pc' = [pc EXCEPT ![t] = "done"]
    /\ IF ReturnsEarly(call[t].dry)
       THEN /\ call' = [call EXCEPT ![t].outcome = "returned"]
            /\ UNCHANGED status
       ELSE /\ call' = [call EXCEPT ![t].outcome = call[t].msg]
            /\ status' = [status EXCEPT ![t] = call[t].msg]
    /\ cat' = [cat EXCEPT ![t] = <<>>]
    /\ UNCHANGED <<catStore, imgStore, footprint, matchList, dependency, shards, todo, mem, pre, prevCall, stalePut, batch>>

\* Mutant: the handler records success.
FailRecordsSuccess(t) ==
    /\ pc[t] = "except"
    /\ pc' = [pc EXCEPT ![t] = "done"]
    /\ call' = [call EXCEPT ![t].outcome = call[t].msg]
    /\ status' = [status EXCEPT ![t] = SUCCESS]
    /\ UNCHANGED <<catStore, imgStore, footprint, matchList, dependency, shards, cat, todo, mem, pre, prevCall, stalePut, batch>>

\* Mutant: the handler leaves the recorded status as it was.
FailKeepsStatus(t) ==
    /\ pc[t] = "except"
    /\ pc' = [pc EXCEPT ![t] = "done"]
    /\ call' = [call EXCEPT ![t].outcome = call[t].msg]
    /\ UNCHANGED <<catStore, imgStore, footprint, matchList, dependency, shards, status, cat, todo, mem, pre, prevCall, stalePut, batch>>

\* The except clause (lines 52-55), then set_status with the exception's
\* message (line 57).
Fail(t) ==
    /\ pc[t] = "except"
    /\ pc' = [pc EXCEPT ![t] = "done"]
    /\ call' = [call EXCEPT ![t].outcome = call[t].msg]
    /\ status' = [status EXCEPT ![t] = call[t].msg]
    /\ UNCHANGED <<catStore, imgStore, footprint, matchList, dependency, shards, cat, todo, mem, pre, prevCall, stalePut, batch>>

\* run() has returned to its caller.
Return(t) ==
    /\ pc[t] = "done"
    /\ pc' = [pc EXCEPT ![t] = "idle"]
    /\ prevCall' = [task |-> t, outcome |-> call[t].outcome]
    /\ call' = [call EXCEPT ![t] = IdleCall]
    /\ pre' = [shards |-> shards, status |-> status, catStore |-> catStore]
    /\ batch' = [batch EXCEPT !.i = NextPair(batch, call[t].outcome)]
    /\ UNCHANGED <<catStore, imgStore, footprint, matchList, dependency, shards, status, cat, todo, mem, stalePut>>

\* main(): one call of run() at a time (lines 181-184).
Start(t) ==
    /\ \A u \in Exposures : pc[u] = "idle"
    /\ \E dry \in BOOLEAN, force \in BOOLEAN :
         \E depOK \in (IF dependency = NoDependency THEN {TRUE} ELSE BOOLEAN) :
            StartWith(t, dry, force, depOK)
    /\ UNCHANGED batch

Next ==
    \E t \in Exposures :
        \/ Start(t)
        \/ AssignPix(t)
        \/ CountCands(t)
        \/ SplitGet(t)
        \/ SplitPut(t)
        \/ Complete(t)
        \/ Fail(t)
        \/ Return(t)

Spec == Init /\ [][Next]_vars

\* The first invocation of each task, one call at a time, for every cone
\* search result of up to MaxCand candidates (the same for every exposure).
InitMatch == InitWith(MatchLists, {NoDependency}, {NoBatch})

StartFirst(t) ==
    /\ \A u \in Exposures : pc[u] = "idle"
    /\ status[t] = NotStarted
    /\ StartWith(t, FALSE, FALSE, TRUE)
    /\ UNCHANGED batch

NextMatch ==
    \E t \in Exposures :
        \/ StartFirst(t)
        \/ AssignPix(t)
        \/ CountCands(t)
        \/ SplitGet(t)
        \/ SplitPut(t)
        \/ Complete(t)
        \/ Fail(t)
        \/ Return(t)

SpecMatch == InitMatch /\ [][NextMatch]_vars

\* The first invocation of each task, the tasks running concurrently as
\* independent processes.
StartConcurrent(t) ==
    /\ status[t] = NotStarted
    /\ call[t].outcome = "none"
    /\ StartWith(t, FALSE, FALSE, TRUE)
    /\ UNCHANGED batch

NextConc ==
    \E t \in Exposures :
        \/ StartConcurrent(t)
        \/ AssignPix(t)
        \/ CountCands(t)
        \/ SplitGet(t)
        \/ SplitPut(t)
        \/ Complete(t)
        \/ Fail(t)

SpecConc == Init /\ [][NextConc]_vars

\* main(): the loop over the pairs of the cone search calls run() for the
\* next pair with the command-line flags (lines 181-184).
BatchStart(t) ==
    /\ \A u \in Exposures : pc[u] = "idle"
    /\ batch.i <= Len(batch.overlaps)
    /\ t = batch.overlaps[batch.i]
    /\ Len(batch.attempted) < batch.i
    /\ \E depOK \in (IF dependency = NoDependency THEN {TRUE} ELSE BOOLEAN) :
          StartWith(t, batch.dry, batch.force, depOK)
    /\ batch' = [batch EXCEPT !.attempted = Append(@, t)]

InitBatch == InitWith({}, {NoDependency, "mkpsf"}, Batches)

NextBatch ==
    \E t \in Exposures :
        \/ BatchStart(t)
        \/ AssignPix(t)
        \/ CountCands(t)
        \/ SplitGet(t)
        \/ SplitPut(t)
        \/ Complete(t)
        \/ Fail(t)
        \/ Return(t)

\* main() is one sequential process: it takes its next step whenever it has one.
SpecBatch == InitBatch /\ [][NextBatch]_vars /\ WF_vars(NextBatch)

-----------------------------------------------------------------------------
(* Properties of the serial execution *)

RowsOf(table, d) == {i \in 1..Len(table) : table[i].ds = d}

SourcesIn(d, p) ==
    {i \in 1..Len(catStore[d].table) : skycoord_to_healpix(catStore[d].table[i]) = p}

Finished(t) == pc[t] = "done"

\* C1: when a task that succeeded (not dry-run) is run again right away with
\* force, and succeeds again, every pixel shard is the same after the second
\* run as after the first: same rows, same HPXID values, same order.
C1_ForcedRerunIdempotent ==
    \A t \in Exposures :
        (/\ Finished(t)
         /\ call[t].outcome = SUCCESS
         /\ prevCall = [task |-> t, outcome |-> SUCCESS])
        => shards = pre.shards

C1_Witness ==
    \E t \in Exposures :
        /\ Finished(t)
        /\ call[t].outcome = SUCCESS
        /\ call[t].forced
        /\ call[t].nput = 2
        /\ prevCall = [task |-> t, outcome |-> SUCCESS]
        /\ \E p \in Pixels : \E r \in 1..Len(shards[p].table) :
              shards[p].table[r].ds # t

\* C2: whatever merges have been made, in whatever order, a pixel shard never
\* holds more rows of a dataset than the dataset's catalog has sources in
\* that pixel, and right after a completed merge it holds exactly that many.
C2_NoDuplicateRows ==
    /\ \A p \in Pixels, d \in Exposures :
          Cardinality(RowsOf(shards[p].table, d)) <= Cardinality(SourcesIn(d, p))
    /\ \A t \in Exposures :
          (Finished(t) /\ call[t].outcome \in {SUCCESS, "returned"})
          => \A p \in Pixels :
                Cardinality(RowsOf(shards[p].table, t)) = Cardinality(SourcesIn(t, p))

C2_Witness ==
    \E t \in Exposures, p \in Pixels :
        /\ Finished(t)
        /\ call[t].outcome = SUCCESS
        /\ RowsOf(pre.shards[p].table, t) # {}
        /\ Cardinality(RowsOf(shards[p].table, t)) = Cardinality(SourcesIn(t, p))
        /\ pre.shards[p].table[1].ds = t
        /\ shards[p].table[1].ds # t

\* C3 (as claimed): when a dry-run invocation has ended, no shard put has been
\* made and every pixel shard is as it was before the call.
C3_DryRunLeavesStorage ==
    \A t \in Exposures :
        (Finished(t) /\ call[t].dry)
        => (call[t].nput = 0 /\ shards = pre.shards)

\* C4 (as claimed): when a non-skipped dry-run invocation has ended, the
\* recorded status is success if it completed and the failure message if it
\* raised.
C4_DryRunRecordsStatus ==
    \A t \in Exposures :
        (Finished(t) /\ call[t].dry /\ call[t].outcome # "skipped")
        => status[t] = (IF call[t].outcome = "returned" THEN SUCCESS ELSE call[t].msg)

\* C4 (amended): when a non-skipped dry-run invocation has ended, the recorded
\* status is the failure message if the computation raised, and is the status
\* recorded before the call if it completed.
C4_DryRunStatus ==
    \A t \in Exposures :
        (Finished(t) /\ call[t].dry /\ call[t].outcome # "skipped")
        => /\ call[t].outcome = "returned" => (call[t].msg = SUCCESS /\ status = pre.status)
           /\ call[t].outcome # "returned" =>
                 (call[t].msg # SUCCESS /\ status[t] = call[t].msg)

C4_Witness ==
    \E t \in Exposures :
        /\ Finished(t)
        /\ call[t].dry
        /\ call[t].outcome = "returned"
        /\ call[t].matched
        /\ status[t] = NotStarted

\* C5: an invocation is skipped exactly when the recorded status is success
\* and force is not set, whatever the dependency's status; a skipped
\* invocation has matched nothing, put no shard and left every shard and
\* every status as it was.
C5_SkipIfDone ==
    \A t \in Exposures :
        Finished(t)
        => /\ (call[t].outcome = "skipped") <=>
                 (pre.status[t] = SUCCESS /\ ~call[t].forced)
           /\ call[t].outcome = "skipped"
                 => (/\ ~call[t].matched
                     /\ call[t].nput = 0
                     /\ shards = pre.shards
                     /\ status = pre.status)

C5_Witness ==
    \E t \in Exposures :
        /\ Finished(t)
        /\ call[t].outcome = "skipped"
        /\ dependency # NoDependency
        /\ ~call[t].depOK
        /\ \E p \in Pixels : shards[p].exists

\* C6: with a dependency configured whose status is not success, a
\* non-skipped invocation ends with the dependency failure, has not called
\* match(), has put no shard and has left every shard as it was.
C6_DependencyGate ==
    \A t \in Exposures :
        (/\ Finished(t)
         /\ call[t].outcome # "skipped"
         /\ dependency # NoDependency
         /\ ~call[t].depOK)
        => (/\ call[t].outcome = DepNotRun
            /\ status[t] = DepNotRun
            /\ ~call[t].matched
            /\ call[t].nput = 0
            /\ shards = pre.shards)

C6_Witness ==
    \E t \in Exposures :
        /\ Finished(t)
        /\ call[t].outcome = DepNotRun
        /\ ~call[t].depOK
        /\ pre.status[t] = SUCCESS
        /\ \E p \in Pixels : RowsOf(shards[p].table, t) # {}

-----------------------------------------------------------------------------
(* Properties of concurrent tasks *)

\* The HPXID of a row was numbered by its task (lines 119-121), not inherited.
Numbered(r) == r.pos \notin call[r.ds].inherited

\* Two rows of one persisted shard, of different datasets, carrying the same
\* newly numbered HPXID although their positions do not match.
Collision(p, i, j) ==
    /\ shards[p].table[i].ds # shards[p].table[j].ds
    /\ shards[p].table[i].hpxid = shards[p].table[j].hpxid
    /\ Numbered(shards[p].table[i])
    /\ Numbered(shards[p].table[j])
    /\ ~Within(shards[p].table[i].pos, shards[p].table[j].pos)

\* C7: when the concurrent first runs of two tasks leave, in one persisted
\* shard, two rows of different datasets with the same newly numbered HPXID
\* and positions that do not match, both tasks had read the same row count
\* for that pixel's shard (0 when both found it absent).
C7_CollisionFromSameRead ==
    \A p \in Pixels : \A i, j \in 1..Len(shards[p].table) :
        (Collision(p, i, j) /\ \A t \in Exposures : Finished(t))
        => call[shards[p].table[i].ds].readLen[p] = call[shards[p].table[j].ds].readLen[p]

C7_Witness ==
    \E p \in Pixels : \E i, j \in 1..Len(shards[p].table) :
        /\ Collision(p, i, j)
        /\ \A t \in Exposures : Finished(t) /\ call[t].outcome = SUCCESS
        /\ call[shards[p].table[i].ds].readLen[p] = 0
        /\ call[shards[p].table[j].ds].readLen[p] = 0

\* Dataset d has sources in pixel p and none of its rows is in p's shard.
Lost(d, p) == SourcesIn(d, p) # {} /\ RowsOf(shards[p].table, d) = {}

\* C8: when both concurrent tasks have recorded success and the rows of one
\* of them are missing from a shard it merged into, a put has overwritten a
\* shard that had changed since its get; and the rows of the two tasks are
\* never both missing.
C8_LostUpdateFromStalePut ==
    (\A t \in Exposures : Finished(t) /\ status[t] = SUCCESS)
    => \A p \in Pixels :
          /\ (\E d \in Exposures : Lost(d, p)) => stalePut
          /\ ~(\A d \in Exposures : Lost(d, p))

C8_Witness ==
    /\ \A t \in Exposures : Finished(t) /\ status[t] = SUCCESS
    /\ \E p \in Pixels, d \in Exposures : Lost(d, p)

-----------------------------------------------------------------------------
(* Properties of the counts *)

\* match() has returned the catalog of task t.
Matched(t) == pc[t] \in {"split", "put", "post"}

\* Candidates of task t whose catalog and image are both found.
Retrievable(t) ==
    {k \in 1..Len(matchList[t]) :
        catStore[matchList[t][k]].exists /\ imgStore[matchList[t][k]]}

\* Candidates of task t whose catalog is found and whose image is not.
ImageMissing(t) ==
    {k \in 1..Len(matchList[t]) :
        catStore[matchList[t][k]].exists /\ ~imgStore[matchList[t][k]]}

Containing(t, a) == {k \in Retrievable(t) : a \in footprint[matchList[t][k]]}

\* Candidates among K whose catalog has a source within the tolerance of
\* position a.
DetectingIn(K, t, a) ==
    {k \in K :
        \E j \in 1..Len(catStore[matchList[t][k]].table) :
            Within(a, catStore[matchList[t][k]].table[j])}

Detecting(t, a) == DetectingIn(Retrievable(t), t, a)

\* Source j of catalog c is the nearest one to position a, the first among
\* equally near ones, and within the tolerance.
IsNearest(a, c, j) ==
    /\ Within(a, c[j])
    /\ \A j2 \in 1..Len(c) :
          \/ Dist2(a, c[j2]) > Dist2(a, c[j])
          \/ Dist2(a, c[j2]) = Dist2(a, c[j]) /\ j2 >= j

\* Candidates among K with a source whose nearest catalog source within the
\* tolerance is source i of table (the last such source of the table).
MatchedIn(K, t, table, i) ==
    {k \in K :
        \E j \in 1..Len(catStore[matchList[t][k]].table) :
            /\ IsNearest(table[i].pos, catStore[matchList[t][k]].table, j)
            /\ \A i2 \in (i + 1)..Len(table) :
                  ~IsNearest(table[i2].pos, catStore[matchList[t][k]].table, j)}

MatchedBy(t, table, i) == MatchedIn(Retrievable(t), t, table, i)

\* C9 (as claimed): MATCHES <= OVERLAPS for every row of a catalog returned
\* by match() and for every row stored in a shard.
C9_MatchesLeOverlaps ==
    /\ \A t \in Exposures : Matched(t) =>
          \A i \in 1..Len(cat[t]) : cat[t][i].m <= cat[t][i].o
    /\ \A p \in Pixels : \A i \in 1..Len(shards[p].table) :
          shards[p].table[i].m <= shards[p].table[i].o

-----------------------------------------------------------------------------
(* Properties of failures *)

\* C11 (as claimed): after match(), the counts of every source are those that
\* the candidates with both catalog and image give; a candidate whose catalog
\* or image is not found has added to neither count, and the candidates
\* listed after it have been counted.
C11_MissingCandidateSkipped ==
    \A t \in Exposures : Matched(t) =>
        \A i \in 1..Len(cat[t]) :
            /\ cat[t][i].m = Cardinality(MatchedBy(t, cat[t], i))
            /\ cat[t][i].o = Cardinality(Containing(t, cat[t][i].pos))

\* C12: when an invocation has ended after an exception raised inside
\* match() (primary catalog or image not found, or a shard or candidate
\* retrieval failing with another error), it has made no shard put, every
\* shard is as it was before the call, the catalog in memory is gone, and,
\* unless it was a dry run, the recorded status is the error message.
C12_FatalInMatchWritesNothing ==
    \A t \in Exposures :
        (Finished(t) /\ call[t].raisedIn = "match")
        => /\ call[t].nput = 0
           /\ shards = pre.shards
           /\ cat[t] = <<>>
           /\ call[t].msg \in {ENOENT, EIO}
           /\ ~call[t].dry => status[t] = call[t].msg

C12_Witness ==
    \E t \in Exposures :
        /\ Finished(t)
        /\ call[t].raisedIn = "match"
        /\ call[t].msg = EIO
        /\ ~call[t].dry
        /\ pre.status[t] = SUCCESS
        /\ call[t].readLen[0] > 0
        /\ RowsOf(shards[1].table, t) # {}

\* C13: when a non-skipped invocation that is not a dry run has ended, the
\* recorded status of its task is success if no exception was raised and the
\* exception's message otherwise, whatever the status was before the call;
\* and an invocation that has ended can always return to its caller.
C13_StatusIsLatestAttempt ==
    \A t \in Exposures :
        /\ (Finished(t) /\ call[t].outcome # "skipped" /\ ~call[t].dry)
           => /\ status[t] = call[t].msg
              /\ (status[t] = SUCCESS) <=> (call[t].raisedIn = "none")
              /\ call[t].raisedIn # "none"
                    => status[t] \in {DepNotRun, ENOENT, EIO}
        /\ Finished(t) => ENABLED Return(t)
        /\ pc[t] \in {"except", "post"} => ENABLED (Fail(t) \/ Complete(t))

C13_Witness ==
    \E t \in Exposures :
        /\ Finished(t)
        /\ call[t].forced
        /\ ~call[t].dry
        /\ pre.status[t] = SUCCESS
        /\ call[t].raisedIn = "split_to_hpx"
        /\ call[t].nput = 1
        /\ status[t] = EIO

\* main() has left its loop.
BatchDone == batch.i = Len(batch.overlaps) + 1 /\ \A t \in Exposures : pc[t] = "idle"

\* C14: whatever the outcome of each task, main() eventually leaves its loop
\* having invoked run() for every pair of the cone search, in order.
C14_BatchContinues == <>(BatchDone /\ batch.attempted = batch.overlaps)

C14_Witness ==
    /\ BatchDone
    /\ batch.attempted = batch.overlaps
    /\ Len(batch.overlaps) = 2
    /\ batch.overlaps[1] # batch.overlaps[2]
    /\ status[batch.overlaps[1]] = EIO
    /\ status[batch.overlaps[2]] = SUCCESS

-----------------------------------------------------------------------------
(* Properties of the identifiers *)

\* Source i of the catalog in memory of task t carries an HPXID given by the
\* numbering of lines 119-121 (and not replaced by line 113 afterwards).
NewlyNumbered(t, i) ==
    /\ cat[t][i].hpxid >= 0
    /\ cat[t][i].pos \notin call[t].inherited

\* C15: within one task, the sources of one pixel that carry a newly numbered
\* HPXID carry pairwise distinct values.
C15_NewIdsDistinct ==
    \A t \in Exposures : \A i, j \in 1..Len(cat[t]) :
        (/\ i # j
         /\ cat[t][i].pix = cat[t][j].pix
         /\ NewlyNumbered(t, i)
         /\ NewlyNumbered(t, j))
        => cat[t][i].hpxid # cat[t][j].hpxid

C15_Witness ==
    \E t \in Exposures : \E i, j \in 1..Len(cat[t]) :
        /\ pc[t] = "post"
        /\ i < j
        /\ cat[t][i].pix = cat[t][j].pix
        /\ NewlyNumbered(t, i)
        /\ NewlyNumbered(t, j)
        /\ call[t].readLen[cat[t][i].pix] > 0
        /\ cat[t][i].hpxid = call[t].readLen[cat[t][i].pix]
        /\ cat[t][j].hpxid = cat[t][i].hpxid + 1

\* The rows of the shard of pixel p within the tolerance of position a.
RowsNear(p, a) ==
    {j \in 1..Len(shards[p].table) : Within(a, shards[p].table[j].pos)}

\* Source i of the catalog in memory of task t has no row of its own pixel's
\* shard within the tolerance.
Unmatched(t, i) == RowsNear(cat[t][i].pix, cat[t][i].pos) = {}

\* C16 (as claimed): when the HPXID loop of a task running alone has ended, a
\* source with a row of its pixel's shard within the tolerance carries the
\* HPXID of such a row, and the unmatched sources of a pixel carry n, n+1, ...
\* in catalog order, n being the row count of the pixel's shard (0 when the
\* shard does not exist).
C16_AssignmentRule ==
    \A t \in Exposures : pc[t] = "count" =>
        \A i \in 1..Len(cat[t]) :
            LET p == cat[t][i].pix
            IN IF Unmatched(t, i)
               THEN cat[t][i].hpxid =
                       Len(shards[p].table)
                       + Cardinality({k \in 1..(i - 1) :
                                         cat[t][k].pix = p /\ Unmatched(t, k)})
               ELSE cat[t][i].hpxid \in
                       {shards[p].table[j].hpxid : j \in RowsNear(p, cat[t][i].pos)}

-----------------------------------------------------------------------------
(* Properties of the run *)

\* C17 (as claimed): when a task that is not a dry run has recorded success,
\* the catalog of its exposure in catalog storage has been written: it is no
\* longer the catalog without HPXID, MATCHES and OVERLAPS that the call loaded.
C17_CatalogPersisted ==
    \A t \in Exposures :
        (Finished(t) /\ ~call[t].dry /\ call[t].outcome = SUCCESS)
        => catStore[t] # pre.catStore[t]

\* C18 (as claimed): an invocation with dry_run set and force not set, on a
\* task whose recorded status is success, is not skipped and runs match().
C18_DryRunImpliesForce ==
    \A t \in Exposures :
        (Finished(t) /\ call[t].dry /\ ~call[t].forced /\ pre.status[t] = SUCCESS)
        => (call[t].outcome # "skipped" /\ call[t].matched)

-----------------------------------------------------------------------------
(* Properties of the matcher *)

\* The position lists that match() hands to match_lists as second argument
\* for task t: the rows of each existing shard, the sources of each candidate
\* catalog.
SecondLists(t) ==
    {PosOf(shards[p].table) : p \in {q \in Pixels : shards[q].exists}}
    \cup {catStore[matchList[t][k]].table : k \in Retrievable(t)}

\* Point j of p2 is a nearest point of p2 to a.
NearestTo(a, p2, j) == \A k \in 1..Len(p2) : Dist2(a, p2[j]) <= Dist2(a, p2[k])

-----------------------------------------------------------------------------
(* Properties of the shards under serial execution *)

\* The rows of the shard of pixel p in S, and those with the same HPXID
\* within the tolerance of one of them.
Grow(p, S) ==
    S \cup {k \in 1..Len(shards[p].table) :
               \E i \in S : /\ shards[p].table[k].hpxid = shards[p].table[i].hpxid
                            /\ Within(shards[p].table[k].pos, shards[p].table[i].pos)}

\* The rows linked to those of S by a chain of positional matches between
\* rows of the same HPXID.
RECURSIVE LinkedTo(_, _)
LinkedTo(p, S) == IF Grow(p, S) = S THEN S ELSE LinkedTo(p, Grow(p, S))

\* C20 (as claimed): after a serial sequence of tasks, when every task that
\* has run has recorded success, two rows of one shard carry the same HPXID
\* only if they are linked by positional matches between rows of that HPXID.
C20_UniqueInShard ==
    (\A t \in Exposures : pc[t] = "idle" /\ status[t] \in {SUCCESS, NotStarted})
    => \A p \in Pixels : \A i, j \in 1..Len(shards[p].table) :
          shards[p].table[i].hpxid = shards[p].table[j].hpxid
          => j \in LinkedTo(p, {i})

-----------------------------------------------------------------------------
(* Properties of the merge *)

\* The rows of table of datasets other than d, in their order.
OthersOf(table, d) == SelectSeq(table, LAMBDA r : r.ds # d)

\* The rows of the catalog in memory of task t that lie in pixel p, in order.
CatalogRowsIn(t, p) == SelectSeq(cat[t], LAMBDA r : r.pix = p)

\* Task t, running alone, puts the shard of the pixel at the head of its loop.
PutStep(t) == pc[t] = "put" /\ pc'[t] # "put"

\* C21: a put of task t for pixel P, tasks running one at a time, leaves the
\* shard of P holding the rows of the other datasets as they were, in their
\* previous order, followed by exactly the catalog rows whose pixel is P;
\* the catalog has a source in P; the shard of every other pixel is left as
\* it was.
C21_MergeFrame ==
    [][\A t \in Exposures :
          PutStep(t) =>
             LET P == Head(todo[t])
             IN /\ shards'[P].exists
                /\ shards'[P].table =
                      OthersOf(shards[P].table, t) \o CatalogRowsIn(t, P)
                /\ OthersOf(shards'[P].table, t) = OthersOf(shards[P].table, t)
                /\ CatalogRowsIn(t, P) # <<>>
                /\ \A q \in Pixels \ {P} : shards'[q] = shards[q]]_vars

C21_Witness ==
    \E t \in Exposures :
        /\ Finished(t)
        /\ call[t].outcome = SUCCESS
        /\ call[t].nput = 1
        /\ SourcesIn(t, 0) = {}
        /\ shards[0] = pre.shards[0]
        /\ Len(OthersOf(shards[0].table, t)) > 0
        /\ Len(OthersOf(shards[1].table, t)) > 0
        /\ RowsOf(pre.shards[1].table, t) # {}
        /\ pre.shards[1].table[1].ds = t

\* The number of pixels before p in which the catalog of t has a source.
PixelsBefore(t, p) == Cardinality({q \in Pixels : q < p /\ SourcesIn(t, q) # {}})

\* C22: when an invocation has ended after an exception raised in the merge
\* loop of split_to_hpx, the recorded status is the error message, the shards
\* of the pixels already put hold the rows of the dataset (and the other
\* datasets' rows as before), and the shards of the pixels not yet put are as
\* they were before the call.
C22_NoRollback ==
    \A t \in Exposures :
        (Finished(t) /\ call[t].raisedIn = "split_to_hpx")
        => /\ status[t] = EIO
           /\ call[t].outcome = EIO
           /\ \A p \in Pixels :
                 IF SourcesIn(t, p) # {} /\ PixelsBefore(t, p) < call[t].nput
                 THEN /\ Cardinality(RowsOf(shards[p].table, t))
                           = Cardinality(SourcesIn(t, p))
                      /\ OthersOf(shards[p].table, t) = OthersOf(pre.shards[p].table, t)
                 ELSE shards[p] = pre.shards[p]

C22_Witness ==
    \E t \in Exposures :
        /\ Finished(t)
        /\ call[t].raisedIn = "split_to_hpx"
        /\ call[t].nput = 1
        /\ status[t] = EIO
        /\ RowsOf(shards[0].table, t) # {}
        /\ RowsOf(pre.shards[0].table, t) = {}
        /\ SourcesIn(t, 1) # {}
        /\ RowsOf(shards[1].table, t) = {}

\* The positions of the sources of the stored catalog of t in pixel p, in
\* catalog order.
PositionsIn(t, p) ==
    SelectSeq(catStore[t].table, LAMBDA a : skycoord_to_healpix(a) = p)

\* C23: when a task running alone has completed and the shard of a pixel of
\* its catalog did not exist before the call, the task read row count 0 for
\* it, the shard now exists and consists of exactly the catalog's rows of
\* that pixel in catalog order, and those of them that were numbered carry
\* 0, 1, ... in that order.  A task whose catalog and image exist never ends
\* with a not-found error.
C23_LazyShardCreation ==
    \A t \in Exposures :
        /\ (Finished(t) /\ call[t].msg = ENOENT)
           => (~catStore[t].exists \/ ~imgStore[t])
        /\ (Finished(t) /\ call[t].outcome \in {SUCCESS, "returned"})
           => \A p \in Pixels :
                 (~pre.shards[p].exists /\ SourcesIn(t, p) # {})
                 => /\ call[t].readLen[p] = 0
                    /\ shards[p].exists
                    /\ PosOf(shards[p].table) = PositionsIn(t, p)
                    /\ \A r \in 1..Len(shards[p].table) :
                          /\ shards[p].table[r].ds = t
                          /\ shards[p].table[r].pix = p
                          /\ Numbered(shards[p].table[r])
                                => shards[p].table[r].hpxid =
                                      Cardinality({q \in 1..(r - 1) :
                                                      Numbered(shards[p].table[q])})

C23_Witness ==
    \E t \in Exposures :
        /\ Finished(t)
        /\ call[t].outcome = SUCCESS
        /\ pre.shards[0].exists
        /\ ~pre.shards[1].exists
        /\ Len(shards[1].table) = 3
        /\ shards[1].table[3].ds = t
        /\ shards[1].table[3].hpxid = 2

-----------------------------------------------------------------------------
(* Properties of the candidate set *)

\* The occurrences of the exposures of S among the candidates K of task t.
Occurrences(K, t, S) == {k \in K : matchList[t][k] \in S}

\* The catalog of exposure c has a source whose one match is source i of the
\* catalog in memory of task t.
MatchesOnce(t, c, i) ==
    \E j \in 1..Len(catStore[c].table) :
        /\ IsNearest(cat[t][i].pos, catStore[c].table, j)
        /\ \A i2 \in (i + 1)..Len(cat[t]) :
              ~IsNearest(cat[t][i2].pos, catStore[c].table, j)

\* C24: after match(), each exposure adds to the counts of a source once per
\* occurrence in the candidate list: OVERLAPS is the number of occurrences of
\* the exposures whose footprint contains the source, and MATCHES the number
\* of occurrences of the exposures with a source matched to it; the task's own
\* exposure is counted like any other, each of its occurrences adding one
\* match to every source.  (Occurrences are those with catalog and image
\* found; those with a catalog and no image add to MATCHES or not, all alike.)
C24_CandidatesCountPerOccurrence ==
    \A t \in Exposures : Matched(t) =>
        \A i \in 1..Len(cat[t]) :
            LET inside == {c \in Exposures : cat[t][i].pos \in footprint[c]}
                matching == {c \in Exposures : MatchesOnce(t, c, i)}
                all == Retrievable(t) \cup ImageMissing(t)
            IN /\ cat[t][i].o = Cardinality(Occurrences(Retrievable(t), t, inside))
               /\ \/ cat[t][i].m = Cardinality(Occurrences(Retrievable(t), t, matching))
                  \/ cat[t][i].m = Cardinality(Occurrences(all, t, matching))
               /\ cat[t][i].m >= Cardinality(Occurrences(Retrievable(t), t, {t}))

C24_Witness ==
    \E t \in Exposures : \E i \in 1..Len(cat[t]) :
        /\ Matched(t)
        /\ matchList[t] = <<t, t, t>>
        /\ cat[t][i].m = 3
        /\ cat[t][i].o = 3

-----------------------------------------------------------------------------
(* Properties of the HPXID loop *)

\* Task t completes the iteration of the HPXID loop for the pixel at the head
\* of its loop.
AssignStep(t) == pc[t] = "assign" /\ pc'[t] \in {"assign", "count"} /\ cat'[t] # <<>>

\* C25 (as claimed): an iteration of the HPXID loop for one pixel leaves the
\* HPXID of every source of another pixel as it was.
C25_InheritanceInOwnPixel ==
    [][\A t \in Exposures :
          AssignStep(t) =>
             \A i \in 1..Len(cat[t]) :
                 cat[t][i].pix # Head(todo[t])
                 => cat'[t][i].hpxid = cat[t][i].hpxid]_vars

\* C26: every row of a catalog returned by match(), and every row stored in
\* a shard, carries an HPXID >= 0.
C26_NoUnassignedIdentifier ==
    /\ \A t \in Exposures :
          (Matched(t) \/ pc[t] = "count")
          => \A i \in 1..Len(cat[t]) : cat[t][i].hpxid >= 0
    /\ \A p \in Pixels : \A r \in 1..Len(shards[p].table) :
          shards[p].table[r].hpxid >= 0
    /\ \A t \in Exposures : \A r \in 1..Len(mem[t]) : mem[t][r].hpxid >= 0

C26_Witness ==
    \E t \in Exposures :
        /\ pc[t] = "post"
        /\ Len(cat[t]) = 3
        /\ call[t].inherited # {}
        /\ \E i \in 1..Len(cat[t]) : NewlyNumbered(t, i) /\ cat[t][i].hpxid > 0
        /\ \A p \in Pixels : shards[p].exists

====
